---- MODULE Spec2Model ----
(***************************************************************************)
(* A model of the archivist-python client: the Archivist connection class  *)
(* (construction, the auth property, __copy__, Public, the REST verbs),    *)
(* the 429 retry wrapper around the verbs and the confirmation poller.     *)
(*                                                                         *)
(* Time is a discrete clock in seconds.  Python objects that can be        *)
(* aliased (the fixtures dictionaries) live in a heap of cells addressed   *)
(* by reference, so that sharing between clients is observable.            *)
(***************************************************************************)
EXTENDS Integers, Sequences, FiniteSets, TLC

VARIABLES
    now,        \* time(): the wall clock, in seconds
    heap,       \* the dict objects the clients' fixtures refer to
    clients,    \* the client objects that exist, by slot
    issued,     \* the access tokens the identity provider has issued
    last,       \* what the most recent operation did and returned
    call,       \* the decorated REST call in progress (retry wrapper position)
    wire,       \* the HTTP traffic of the REST verbs
    entity,     \* the server's record of the entity being confirmed
    conf,       \* the confirmation poller's position
    store,      \* the locations the server holds, in server order
    task,       \* each client's locations.create_if_not_exists call
    listing,    \* the iterator a locations.list call returned
    attrs       \* the sub-clients set as attributes on each client object,
                \* and the latest attribute access

vars == <<now, heap, clients, issued, last, call, wire, entity, conf, store, task, listing, attrs>>

(***************************************************************************)
(* Bounds of the model.                                                    *)
(***************************************************************************)
MaxUrlLen == 2          \* longest URL tried at construction
MaxMaxTime == 4         \* largest max_time a client is configured with
MaxClients == 2         \* client objects alive in one behaviour
MaxObj == 6             \* dict objects allocated in one behaviour
MaxTokens == 3          \* tokens the identity provider issues in one behaviour
MaxNow == 14            \* the clock stops here
MaxClock == 3           \* the clock stops here where several clients are modelled
MaxExpiresIn == 12      \* largest expires_in the identity provider answers
MaxFetchTime == 1       \* longest time one token fetch takes
MaxRetryAfter == 2      \* largest retry-after the server answers
MaxCalls == 1           \* decorated REST calls in one behaviour
MaxPoll == 2            \* longest poll interval of the confirmation poller

(***************************************************************************)
(* Values.                                                                 *)
(***************************************************************************)
\* Python's None, and the values an auth argument or field can take: a JWT
\* string supplied by the caller, an access_token string issued by the
\* identity provider (the n-th it issued, expiring at the instant exp), or
\* a (client_id, client_secret) tuple.
None == [kind |-> "None", id |-> 0]
Str(n) == [kind |-> "str", id |-> n]
\* The string Str(n) with white space around it, and str.strip.
Padded(n) == [kind |-> "str", id |-> n, ws |-> TRUE]
strip(s) == IF "ws" \in DOMAIN s THEN Str(s.id) ELSE s
AccessToken(n, exp) == [kind |-> "access_token", id |-> n, exp |-> exp]
Tuple(a, b) == [kind |-> "tuple", id |-> a, secret |-> b]

isinstance_tuple(auth) == auth.kind = "tuple"

ROOT == "archivist"
SEP == "/"

CONFIRMATION_STATUS == "confirmation_status"
CONFIRMATION_PENDING == "PENDING"
CONFIRMATION_FAILED_typo == "FAILURE"
CONFIRMATION_FAILED == "FAILED"
CONFIRMATION_CONFIRMED_typo == "CONFIRM"
CONFIRMATION_CONFIRMED == "CONFIRMED"

\* The default max_time of confirmer.py.
MAX_TIME == 1200

\* URLs are sequences of characters.
UrlChars == {"h", SEP}
RECURSIVE SeqsUpTo(_, _)
SeqsUpTo(S, n) ==
    IF n = 0 THEN {<<>>}
    ELSE LET shorter == SeqsUpTo(S, n - 1)
         IN  shorter \cup {Append(s, x) : s \in shorter, x \in S}
Urls == SeqsUpTo(UrlChars, MaxUrlLen)
BaseUrl == <<"h">>

\* str.endswith
endswith(s, c) == Len(s) > 0 /\ s[Len(s)] = c
startswith(s, c) == Len(s) > 0 /\ s[1] = c

\* SEP.join(parts)
RECURSIVE join(_, _)
join(sep, parts) ==
    IF Len(parts) = 0 THEN <<>>
    ELSE IF Len(parts) = 1 THEN parts[1]
    ELSE parts[1] \o <<sep>> \o join(sep, Tail(parts))

(***************************************************************************)
(* The heap of dict objects.  A fixtures dict has one entry whose value is *)
(* absent, a plain value, or a reference to a nested dict.                 *)
(***************************************************************************)
Refs == 1..MaxObj
Free == [k |-> "free"]
Absent == [t |-> "absent", v |-> 0]
Val(n) == [t |-> "val", v |-> n]
Ref(r) == [t |-> "ref", v |-> r]
Dict(item) == [k |-> "dict", item |-> item]

FreeRefs(h) == {r \in Refs : h[r] = Free}
HasRoom(h, n) == Cardinality(FreeRefs(h)) >= n
Alloc(h) == CHOOSE r \in FreeRefs(h) : \A q \in FreeRefs(h) : r <= q

\* copy.copy of the dict at r: a new dict whose entry is the same object.
copy_shallow(h, r) ==
    LET top == Alloc(h)
    IN  [heap |-> [h EXCEPT ![top] = Dict(h[r].item)], ref |-> top]

\* copy.deepcopy of the dict at r: a new dict, nested dicts copied as well.
RECURSIVE deepcopy(_, _)
deepcopy(h, r) ==
    LET item == h[r].item
        top == Alloc(h)
        h1 == [h EXCEPT ![top] = Dict(Absent)]
    IN  IF item.t = "ref"
        THEN LET sub == deepcopy(h1, item.v)
             IN  [heap |-> [sub.heap EXCEPT ![top] = Dict(Ref(sub.ref))], ref |-> top]
        ELSE [heap |-> [h1 EXCEPT ![top] = Dict(item)], ref |-> top]

\* Number of dict objects a deepcopy of r allocates.
RECURSIVE Size(_, _)
Size(h, r) == IF h[r].item.t = "ref" THEN 1 + Size(h, h[r].item.v) ELSE 1

\* The value of the dict at r, nested dicts unfolded: what == compares.
RECURSIVE DeepVal(_, _)
DeepVal(h, r) ==
    IF h[r].item.t = "ref" THEN <<"dict", DeepVal(h, h[r].item.v)>>
    ELSE <<h[r].item.t, h[r].item.v>>

\* The dict objects reachable from r.
RECURSIVE Reach(_, _)
Reach(h, r) == IF h[r].item.t = "ref" THEN {r} \cup Reach(h, h[r].item.v) ELSE {r}

(***************************************************************************)
(* Construction.                                                           *)
(***************************************************************************)
NoClient == [cls |-> "none"]

\* ArchivistPublic.__init__: the state every client has.
ArchivistPublicInit(h, fixtures, verify, max_time) ==
    LET fresh == Alloc(h)
        h1 == IF fixtures = None THEN [h EXCEPT ![fresh] = Dict(Absent)] ELSE h
        f == IF fixtures = None THEN fresh ELSE fixtures.id
    IN  [heap |-> h1,
         self |-> [cls |-> "ArchivistPublic",
                   _fixtures |-> f,
                   _verify |-> verify,
                   _max_time |-> max_time,
                   _response_ring_buffer |-> <<>>,
                   _auth |-> None,
                   _client_id |-> None,
                   _client_secret |-> None,
                   _expires_at |-> 0,
                   _url |-> <<>>,
                   _root |-> <<>>,
                   origin |-> 0]]

\* Archivist.__init__ with the check of the URL on its first character.
ArchivistInit_startswith(h, url, auth, fixtures, verify, max_time) ==
    LET base == ArchivistPublicInit(h, fixtures, verify, max_time)
        s1 == IF isinstance_tuple(auth)
              THEN [base.self EXCEPT !.cls = "Archivist",
                                     !._auth = None,
                                     !._client_id = Str(auth.id),
                                     !._client_secret = Str(auth.secret)]
              ELSE [base.self EXCEPT !.cls = "Archivist",
                                     !._auth = auth]
    IN  IF startswith(url, SEP)
        THEN [raised |-> "ArchivistError", heap |-> base.heap, self |-> NoClient]
        ELSE [raised |-> "none", heap |-> base.heap,
              self |-> [s1 EXCEPT !._url = url, !._root = join(SEP, <<url, <<ROOT>>>>)]]

\* Archivist.__init__ passing the default max_time to the base class.
ArchivistInit_default_max_time(h, url, auth, fixtures, verify, max_time) ==
    LET base == ArchivistPublicInit(h, fixtures, verify, MAX_TIME)
        s1 == IF isinstance_tuple(auth)
              THEN [base.self EXCEPT !.cls = "Archivist",
                                     !._auth = None,
                                     !._client_id = Str(auth.id),
                                     !._client_secret = Str(auth.secret)]
              ELSE [base.self EXCEPT !.cls = "Archivist",
                                     !._auth = auth]
    IN  IF endswith(url, SEP)
        THEN [raised |-> "ArchivistError", heap |-> base.heap, self |-> NoClient]
        ELSE [raised |-> "none", heap |-> base.heap,
              self |-> [s1 EXCEPT !._url = url, !._root = join(SEP, <<url, <<ROOT>>>>)]]

\* Archivist.__init__: the base class state, the auth fields, _expires_at = 0,
\* then the URL check, which raises after the fields above are set.
ArchivistInit(h, url, auth, fixtures, verify, max_time) ==
    LET base == ArchivistPublicInit(h, fixtures, verify, max_time)
        s1 == IF isinstance_tuple(auth)
              THEN [base.self EXCEPT !.cls = "Archivist",
                                     !._auth = None,
                                     !._client_id = Str(auth.id),
                                     !._client_secret = Str(auth.secret)]
              ELSE [base.self EXCEPT !.cls = "Archivist",
                                     !._auth = auth]
    IN  IF endswith(url, SEP)
        THEN [raised |-> "ArchivistError", heap |-> base.heap, self |-> NoClient]
        ELSE [raised |-> "none", heap |-> base.heap,
              self |-> [s1 EXCEPT !._url = url, !._root = join(SEP, <<url, <<ROOT>>>>)]]

(***************************************************************************)
(* The auth property.                                                      *)
(***************************************************************************)
ExpiresIns == 1..MaxExpiresIn

\* The "fudge factor" of Archivist.auth, in seconds.
FudgeFactor == 10

\* What the identity provider answers to appidp.token, the answer arriving
\* at time t: a token with its lifetime, a body without access_token, or an
\* error status.
AppTokens(nextid, t, lifetimes) ==
    {[status |-> 200, access_token |-> AccessToken(nextid, t + e), expires_in |-> e] :
        e \in lifetimes}
    \cup {[status |-> 200, access_token |-> None, expires_in |-> 0],
          [status |-> 401, access_token |-> None, expires_in |-> 0]}

\* The identity providers of the model: how long a token fetch takes and
\* which lifetimes it grants.
AnyIdp == [latency |-> 0..MaxFetchTime, lifetimes |-> ExpiresIns]
QuickIdp == [latency |-> {0}, lifetimes |-> {MaxExpiresIn}]

\* Archivist.auth, the assignments after the token fetch, with the fudge
\* factor added instead of subtracted.
auth_refresh_late(self, t, apptoken) ==
    IF apptoken.access_token = None
    THEN [raised |-> "ArchivistError", self |-> [self EXCEPT !._auth = None]]
    ELSE [raised |-> "none",
          self |-> [self EXCEPT !._auth = apptoken.access_token,
                                !._expires_at = t + apptoken.expires_in + FudgeFactor]]

\* Archivist.auth, the assignments after the token fetch: _auth is set before
\* it is tested, _expires_at only when a token came back.  t is time().
auth_refresh(self, t, apptoken) ==
    IF apptoken.access_token = None
    THEN [raised |-> "ArchivistError", self |-> [self EXCEPT !._auth = None]]
    ELSE [raised |-> "none",
          self |-> [self EXCEPT !._auth = apptoken.access_token,
                                !._expires_at = t + apptoken.expires_in - FudgeFactor]]

\* Archivist.auth read at time t: every way the read can end.  fetch is the
\* identity provider's answer when a token fetch was made, sent the number
\* of requests, t the time at which the read ends.
auth(self, t, nextid, idp) ==
    IF self._client_id # None /\ self._expires_at < t
    THEN {IF apptoken.status # 200
          THEN [raised |-> "PermissionError", self |-> self, ret |-> None,
                sent |-> 1, fetch |-> apptoken, t |-> t1]
          ELSE LET r == auth_refresh(self, t1, apptoken)
               IN  [raised |-> r.raised, self |-> r.self,
                    ret |-> IF r.raised = "none" THEN r.self._auth ELSE None,
                    sent |-> 1, fetch |-> apptoken, t |-> t1]
          : <<t1, apptoken>> \in
                UNION {{<<t + d, a>> : a \in AppTokens(nextid, t + d, idp.lifetimes)} :
                        d \in idp.latency}}
    ELSE {[raised |-> "none", self |-> self, ret |-> self._auth,
           sent |-> 0, fetch |-> [status |-> 0, access_token |-> None, expires_in |-> 0],
           t |-> t]}

\* The number of tokens issued so far, with the one this read fetched.
Issue(o) == IF o.fetch.access_token # None THEN issued + 1 ELSE issued

\* The bounded model can take outcome o.
Affordable(o) ==
    /\ o.t <= MaxNow
    /\ o.fetch.access_token # None => issued < MaxTokens

(***************************************************************************)
(* Records of what an operation did.                                       *)
(***************************************************************************)
Did(op, c, raised, ret) ==
    [op |-> op, c |-> c, raised |-> raised, ret |-> ret,
     url |-> <<>>, auth |-> None, max_time |-> 0, new |-> 0, sent |-> 0, at |-> now]

\* A value of a headers mapping: absent, a string, or "Bearer " + a string.
NoValue == [prefix |-> "", body |-> None]
Value(n) == [prefix |-> "", body |-> Str(n)]
Bearer(s) == [prefix |-> "Bearer ", body |-> s]

\* A headers argument: Python's None, or a dict with the values of its keys.
NoneHeaders ==
    [kind |-> "None", x_custom |-> NoValue, content_type |-> NoValue,
     authorization |-> NoValue]
EmptyHeaders == [NoneHeaders EXCEPT !.kind = "dict"]

\* The latest request of a call, as the session is handed it: the verb, whether a headers
\* keyword was passed and its value, the headers argument of the verb as
\* the caller supplied it and as the caller finds it afterwards, and the
\* client's token when the request was made.
NoRequest ==
    [method |-> "none", data |-> FALSE, kw |-> FALSE, headers |-> NoneHeaders,
     arg |-> NoneHeaders, caller |-> NoneHeaders, auth |-> None]

\* A decorated call: its arguments (data, headers), where it stands, and
\* what it has seen so far (the number
\* of requests sent and of 429 answers, whether every 429 asked for a wait of
\* two seconds, the time slept, the latest response).
NoCall ==
    [pc |-> "idle", method |-> "none", data |-> FALSE, headers |-> NoneHeaders,
     start |-> 0, attempts |-> 0, slept |-> 0,
     wait |-> 0, n429 |-> 0, only2 |-> TRUE,
     resp |-> [n |-> 0, status |-> 0, retry |-> [present |-> FALSE, v |-> 0]],
     err |-> "none", ret |-> 0]
\* A wait for confirmation: where it stands, the timeout argument and the
\* timeout in force, the number of reads made and of reads that reported
\* PENDING, the status the latest read reported.
NoConf ==
    [pc |-> "idle", calls |-> 0, start |-> 0, arg |-> None, timeout |-> 0, wait |-> 0,
     reads |-> 0, npending |-> 0, seen |-> "none", err |-> "none",
     ret |-> [confirmation_status |-> "none"]]
NoWire == [nreq |-> 0, ideal |-> <<>>, calls |-> 0, req |-> NoRequest]
NoEntity == [confirmation_status |-> "PENDING"]

EmptyHeap == [r \in Refs |-> Free]
Slots == 1..MaxClients

\* A dict as create_if_not_exists is given it: the keys it has, the value
\* of 'selector' and the value of 'display_name'.
NoDict == [keys |-> {}, selector |-> <<>>, display_name |-> "none"]
NoLocation == [cls |-> "none", identity |-> 0, display_name |-> "none"]

\* A create_if_not_exists call: where it stands, the dict objects it works
\* on (the caller's and the copy) and which of them its local name data
\* refers to, what the lookup found, the POSTs made and the body of the
\* last, and what came back.  orig is the caller's dict as it was handed in.
NoTask ==
    [pc |-> "idle", calls |-> 0, objs |-> <<NoDict, NoDict>>, data |-> 1, orig |-> NoDict,
     found |-> "none", seen |-> NoLocation, posts |-> 0, body |-> NoDict,
     ret |-> NoLocation, existed |-> FALSE, err |-> "none"]

\* The iterator of locations.list: the page size asked for, the requests
\* made, the continuation token held, the items of the page in hand not
\* yet yielded, the items yielded.
NoListing ==
    [pc |-> "idle", page_size |-> 0, requests |-> 0, token |-> 0, page |-> <<>>,
     yielded |-> <<>>, err |-> "none"]

\* The attributes set on a client object by __getattr__, and the latest
\* attribute access: the name asked for, what it raised, the class and the
\* string form of the sub-client it gave.
NoAttrs ==
    [c \in Slots |-> [set |-> {}, asked |-> "none", raised |-> "none", got |-> "none",
                      str |-> <<>>]]

AuthArgs == {None, Str(1), Tuple(1, 1)}
MaxTimes == 0..MaxMaxTime

InitCommon ==
    /\ now = 1
    /\ heap = EmptyHeap
    /\ clients = [c \in Slots |-> NoClient]
    /\ issued = 0
    /\ last = Did("none", 0, "none", None)
    /\ call = NoCall
    /\ wire = NoWire
    /\ entity = NoEntity
    /\ conf = NoConf
    /\ store = <<>>
    /\ task = [c \in Slots |-> NoTask]
    /\ listing = NoListing
    /\ attrs = NoAttrs

(***************************************************************************)
(* SpecInit: a caller constructing clients from arbitrary URLs and reading *)
(* auth on the client it holds.                                            *)
(***************************************************************************)
\* arch = Archivist(url, auth, verify=..., max_time=...)
Construct ==
    \E url \in Urls, a \in AuthArgs :
        LET r == ArchivistInit(EmptyHeap, url, a, None, TRUE, MaxMaxTime)
        IN  /\ IF r.raised = "none"
               THEN /\ clients' = [clients EXCEPT ![1] = r.self]
                    /\ heap' = r.heap
               ELSE UNCHANGED <<clients, heap>>
            /\ last' = [Did("__init__", 1, r.raised, None) EXCEPT
                            !.url = url, !.auth = a, !.max_time = MaxMaxTime,
                            !.new = IF r.raised = "none" THEN 1 ELSE 0]
            /\ UNCHANGED <<now, issued, call, wire, entity, conf,
                           store, task, listing, attrs>>

\* arch.auth
ReadAuth(c, idp) ==
    /\ clients[c] # NoClient
    /\ clients[c].cls = "Archivist"
    /\ \E o \in auth(clients[c], now, issued + 1, idp) :
        /\ Affordable(o)
        /\ clients' = [clients EXCEPT ![c] = o.self]
        /\ issued' = Issue(o)
        /\ now' = o.t
        /\ last' = [Did("auth", c, o.raised, o.ret) EXCEPT !.sent = o.sent, !.at = o.t]
        /\ UNCHANGED <<heap, call, wire, entity, conf,
                       store, task, listing, attrs>>

NextInit ==
    \/ Construct
    \/ ReadAuth(1, QuickIdp)

SpecInit == InitCommon /\ [][NextInit]_vars

\* C7: constructing a client with a URL that ends in "/" raises
\* ArchivistError whatever the auth argument is, sends no request, fetches
\* no token and leaves the caller without a new client object.
C7_TrailingSlashRejected ==
    [][(last'.op = "__init__" /\ endswith(last'.url, SEP))
        => /\ last'.raised = "ArchivistError"
           /\ last'.new = 0
           /\ last'.sent = 0
           /\ issued' = issued
           /\ clients' = clients]_vars

\* A rejected construction with a credentials pair, by a caller whose earlier
\* client had already fetched a token.
C7_Witness ==
    /\ last.op = "__init__"
    /\ endswith(last.url, SEP)
    /\ last.raised = "ArchivistError"
    /\ last.auth = Tuple(1, 1)
    /\ issued > 0

(***************************************************************************)
(* SpecAuth: one client built from a client-credentials pair, its auth     *)
(* property read at arbitrary times while the clock advances.              *)
(***************************************************************************)
\* Time passes.
Tick(limit) ==
    /\ now < limit
    /\ now' = now + 1
    /\ UNCHANGED <<heap, clients, issued, last, call, wire, entity, conf,
                   store, task, listing, attrs>>

\* The state after arch = Archivist(url, auth, max_time=...).
Built(url, a, max_time) ==
    LET r == ArchivistInit(EmptyHeap, url, a, None, TRUE, max_time)
    IN  /\ r.raised = "none"
        /\ now = 1
        /\ heap = r.heap
        /\ clients = [c \in Slots |-> IF c = 1 THEN r.self ELSE NoClient]
        /\ issued = 0
            /\ last = [Did("__init__", 1, "none", None) EXCEPT
                        !.url = url, !.auth = a, !.max_time = max_time, !.new = 1]
        /\ call = NoCall
        /\ wire = NoWire
        /\ entity = NoEntity
        /\ conf = NoConf
        /\ store = <<>>
        /\ task = [c \in Slots |-> NoTask]
        /\ listing = NoListing
        /\ attrs = NoAttrs

InitAuth == Built(BaseUrl, Tuple(1, 1), MaxMaxTime)

NextAuth ==
    \/ ReadAuth(1, AnyIdp)
    \/ Tick(MaxNow)

SpecAuth == InitAuth /\ [][NextAuth]_vars

\* C6: every token the auth property of a credentials client returns is
\* unexpired at the moment it is returned, whatever lifetime the identity
\* provider granted; a token served from the cache is still at least the
\* fudge factor away from its expiry instant.
C6_TokenUnexpired ==
    (last.op = "auth" /\ last.raised = "none")
        => /\ last.ret.kind = "access_token"
           /\ last.at < last.ret.exp
           /\ last.sent = 0 => last.at + FudgeFactor <= last.ret.exp

\* A re-fetched token whose lifetime is not larger than the fudge factor.
C6_Witness ==
    /\ last.op = "auth"
    /\ last.raised = "none"
    /\ last.sent = 1
    /\ last.ret.id >= 2
    /\ last.ret.exp - last.at <= FudgeFactor

(***************************************************************************)
(* Spec: several clients.  A caller constructs clients, derives others     *)
(* with copy(arch) and arch.Public, changes their fixtures in place and    *)
(* reads their auth while the clock advances.                              *)
(***************************************************************************)
DictArg(r) == [kind |-> "dict", id |-> r]

\* Archivist.__copy__ handing over self._auth without reading the auth
\* property.
copy_stale(h, self, t, nextid, idp) ==
    {LET fx == deepcopy(h, self._fixtures)
         r == ArchivistInit(fx.heap, self._url, self._auth, DictArg(fx.ref),
                            self._verify, self._max_time)
     IN  [raised |-> r.raised, self |-> self, ret |-> self._auth,
          sent |-> 0, fetch |-> [status |-> 0, access_token |-> None, expires_in |-> 0],
          t |-> t, heap |-> r.heap, clone |-> r.self]}

\* Archivist.__copy__: the arguments are evaluated in order (the read of
\* self.auth may fetch a token and may raise), then a new Archivist is built.
copy(h, self, t, nextid, idp) ==
    {IF o.raised # "none"
     THEN [raised |-> o.raised, self |-> o.self, ret |-> o.ret, sent |-> o.sent,
           fetch |-> o.fetch, t |-> o.t, heap |-> h, clone |-> NoClient]
     ELSE LET fx == deepcopy(h, self._fixtures)
              r == ArchivistInit(fx.heap, self._url, o.ret, DictArg(fx.ref),
                                 self._verify, self._max_time)
          IN  [raised |-> r.raised, self |-> o.self, ret |-> o.ret, sent |-> o.sent,
               fetch |-> o.fetch, t |-> o.t, heap |-> r.heap, clone |-> r.self]
     : o \in auth(self, t, nextid, idp)}

\* Archivist.Public: an ArchivistPublic with a deep copy of the fixtures.
Public(h, self) ==
    LET fx == deepcopy(h, self._fixtures)
    IN  ArchivistPublicInit(fx.heap, DictArg(fx.ref), self._verify, self._max_time)

\* The identity provider of this specification: short and long lifetimes.
TwoLifetimesIdp == [latency |-> {0}, lifetimes |-> {1, FudgeFactor + 1}]

FreeSlots == {c \in Slots : clients[c] = NoClient}
Exists(c) == clients[c] # NoClient
IsArchivist(c) == Exists(c) /\ clients[c].cls = "Archivist"

\* The shapes of fixtures a caller passes: none, {label: 1}, {label: {key: 1}}.
FixtureShapes == {"None", "nested"}

\* arch = Archivist(url, auth, fixtures=..., verify=..., max_time=...)
NewClient ==
    \E d \in FreeSlots, a \in AuthArgs, shape \in FixtureShapes, verify \in BOOLEAN :
        /\ d = 1
        /\ HasRoom(heap, 2)
        /\ LET outer == Alloc(heap)
               h1 == [heap EXCEPT ![outer] = Dict(Val(1))]
               inner == Alloc(h1)
               h2 == [h1 EXCEPT ![inner] = Dict(Val(1)), ![outer] = Dict(Ref(inner))]
               max_time == IF verify THEN 0 ELSE MaxMaxTime
               r == CASE shape = "None" -> ArchivistInit(heap, BaseUrl, a, None, verify, max_time)
                      [] shape = "flat" -> ArchivistInit(h1, BaseUrl, a, DictArg(outer), verify, max_time)
                      [] shape = "nested" -> ArchivistInit(h2, BaseUrl, a, DictArg(outer), verify, max_time)
           IN  /\ r.raised = "none"
               /\ heap' = r.heap
               /\ clients' = [clients EXCEPT ![d] = r.self]
               /\ last' = [Did("__init__", d, "none", None) EXCEPT
                               !.url = BaseUrl, !.auth = a, !.max_time = max_time,
                               !.new = d]
        /\ UNCHANGED <<now, issued, call, wire, entity, conf,
                       store, task, listing, attrs>>

\* clone = copy(arch)
Copy(c, idp) ==
    /\ IsArchivist(c)
    /\ HasRoom(heap, Size(heap, clients[c]._fixtures))
    /\ \E d \in FreeSlots, o \in copy(heap, clients[c], now, issued + 1, idp) :
        /\ Affordable(o)
        /\ issued' = Issue(o)
        /\ now' = o.t
        /\ IF o.raised = "none"
           THEN /\ clients' = [clients EXCEPT ![c] = o.self,
                                              ![d] = [o.clone EXCEPT !.origin = c]]
                /\ heap' = o.heap
                /\ last' = [Did("__copy__", c, "none", o.ret) EXCEPT
                                !.new = d, !.sent = o.sent, !.at = o.t]
           ELSE /\ clients' = [clients EXCEPT ![c] = o.self]
                /\ heap' = heap
                /\ last' = [Did("__copy__", c, o.raised, None) EXCEPT
                                !.sent = o.sent, !.at = o.t]
        /\ UNCHANGED <<call, wire, entity, conf,
                       store, task, listing, attrs>>

\* public = arch.Public
GetPublic(c) ==
    /\ IsArchivist(c)
    /\ HasRoom(heap, Size(heap, clients[c]._fixtures))
    /\ \E d \in FreeSlots :
        LET r == Public(heap, clients[c])
        IN  /\ clients' = [clients EXCEPT ![d] = [r.self EXCEPT !.origin = c]]
            /\ heap' = r.heap
            /\ last' = [Did("Public", c, "none", None) EXCEPT !.new = d]
    /\ UNCHANGED <<now, issued, call, wire, entity, conf,
                   store, task, listing, attrs>>

\* arch.fixtures[label] = v, or arch.fixtures[label][key] = v: the caller
\* changes, in place, a dict reachable from the client's fixtures.
MutateFixtures(c) ==
    /\ Exists(c)
    /\ \E r \in Reach(heap, clients[c]._fixtures), v \in {2} :
        /\ heap[r].item # Val(v)
        /\ heap' = [heap EXCEPT ![r] = Dict(Val(v))]
        /\ last' = Did("fixtures", c, "none", None)
    /\ UNCHANGED <<now, clients, issued, call, wire, entity, conf,
                   store, task, listing, attrs>>

Next ==
    \/ NewClient
    \/ \E c \in Slots : Copy(c, TwoLifetimesIdp)
    \/ \E c \in Slots : ReadAuth(c, TwoLifetimesIdp)
    \/ Tick(MaxClock)

Spec == InitCommon /\ [][Next]_vars

\* The configuration a clone shares with the client it was made from.
SameConfig(c, d) ==
    /\ clients[d]._url = clients[c]._url
    /\ clients[d]._verify = clients[c]._verify
    /\ clients[d]._max_time = clients[c]._max_time
    /\ DeepVal(heap, clients[d]._fixtures) = DeepVal(heap, clients[c]._fixtures)

IsClone(d) == IsArchivist(d) /\ clients[d].origin # 0

\* C9 as stated: the clone has the original's configuration and, when the
\* original was built from client credentials, a token that is not the
\* original's current token and credentials of its own to refresh it.
C9_CloneHasFreshToken ==
    (last.op = "__copy__" /\ last.raised = "none")
        => /\ SameConfig(last.c, last.new)
           /\ clients[last.c]._client_id # None
                => /\ clients[last.new]._auth # clients[last.c]._auth
                   /\ clients[last.new]._client_id # None

\* C9 as amended: the clone has the original's configuration and the very
\* token the original's auth property returned at the time of the copy,
\* which the original fetched for itself first if it had expired; the clone
\* holds no credentials, and reading its auth never fetches a token.
C9_CloneSharesToken ==
    /\ (last.op = "__copy__" /\ last.raised = "none")
        => /\ SameConfig(last.c, last.new)
           /\ clients[last.new]._auth = last.ret
           /\ clients[last.c]._auth = last.ret
           /\ clients[last.c]._client_id # None
                => /\ last.ret.kind = "access_token"
                   /\ last.at < last.ret.exp
    /\ \A d \in Slots :
        IsClone(d) => /\ clients[d]._client_id = None
                      /\ clients[d]._client_secret = None
                      /\ clients[d]._expires_at = 0
    /\ (last.op = "auth" /\ IsClone(last.c))
        => /\ last.sent = 0
           /\ last.raised = "none"
           /\ last.ret = clients[last.c]._auth

\* The clone of a credentials client returning, from its auth property, a
\* token that has expired.
C9_Witness ==
    /\ last.op = "auth"
    /\ IsClone(last.c)
    /\ clients[clients[last.c].origin]._client_id # None
    /\ last.ret.kind = "access_token"
    /\ last.ret.exp <= last.at

(***************************************************************************)
(* SpecShare: the same clients, with arch.Public and with callers changing *)
(* fixtures in place; every token lives one second, so that every read of  *)
(* auth on a credentials client fetches a new one.                         *)
(***************************************************************************)
ShortIdp == [latency |-> {0}, lifetimes |-> {1}]

NextShare ==
    \/ NewClient
    \/ \E c \in Slots : Copy(c, ShortIdp)
    \/ \E c \in Slots : GetPublic(c)
    \/ \E c \in Slots : MutateFixtures(c)
    \/ \E c \in Slots : ReadAuth(c, ShortIdp)

SpecShare == InitCommon /\ [][NextShare]_vars

\* What a client's caller can observe of its fixtures and its token.
View(d) ==
    [fixtures |-> DeepVal(heap, clients[d]._fixtures),
     _auth |-> clients[d]._auth,
     _expires_at |-> clients[d]._expires_at]

\* C10: an operation on one client (a change of its fixtures, a read of its
\* auth that fetches a token, a copy or Public made from it) leaves the
\* fixtures, _auth and _expires_at of every other client as they were; in
\* particular those of the client it was derived from and of the clients
\* derived from it.
C10_NoSharedState ==
    [][\A d \in Slots :
        (Exists(d) /\ d # last'.c) => View(d)' = View(d)]_vars

\* A derived client whose nested fixtures were changed and now differ from
\* those of the client it was derived from.
C10_Witness ==
    /\ last.op = "fixtures"
    /\ Exists(last.c)
    /\ clients[last.c].origin # 0
    /\ DeepVal(heap, clients[clients[last.c].origin]._fixtures) = <<"dict", <<"val", 1>>>>
    /\ DeepVal(heap, clients[last.c]._fixtures) = <<"dict", <<"val", 2>>>>

(***************************************************************************)
(* SpecRetry: the REST verbs post, post_file, delete and patch of one      *)
(* client, each wrapped by retry_429, against a server that answers as it  *)
(* likes.                                                                  *)
(***************************************************************************)
HEADERS_RETRY_AFTER == "Archivist-Rate-Limit-Reset"

\* The length of the ring buffer of responses.
RING_BUFFER_MAX_LEN == 3

\* The wait after a 429 that carries no retry-after header.
DefaultBackoff == 1

Methods == {"post", "post_file", "delete", "patch"}

\* A response header that is absent.
NoHeader == [present |-> FALSE, v |-> 0]
Header(v) == [present |-> TRUE, v |-> v]

\* The responses the server can give to the n-th request.
Responses(n) ==
    {[n |-> n, status |-> st, retry |-> NoHeader] : st \in {200, 404}}
    \cup {[n |-> n, status |-> 429, retry |-> h] :
            h \in {NoHeader} \cup {Header(v) : v \in 1..MaxRetryAfter}}

\* The request never got an answer (DNS, connection refused, TLS).
NetworkFailure == [n |-> 0, status |-> 0, retry |-> NoHeader]

\* response.json()
json(resp) == resp.n

\* The response object itself, as the ring buffer holds it: its identity.
Raw(resp) == resp.n

\* errors._parse_response: None for a success, else the error to raise.
_parse_response(resp) ==
    CASE resp.status < 400 -> [kind |-> "none", retry |-> NoHeader]
      [] resp.status = 404 -> [kind |-> "NotFoundError", retry |-> NoHeader]
      [] resp.status = 429 -> [kind |-> "RateLimitError", retry |-> resp.retry]
      [] resp.status \in {401, 403} -> [kind |-> "PermissionError", retry |-> NoHeader]
      [] resp.status >= 500 -> [kind |-> "ServerError", retry |-> NoHeader]
      [] OTHER -> [kind |-> "ConstraintViolationError", retry |-> NoHeader]

\* collections.deque(maxlen=...).appendleft
appendleft(ring, x) ==
    LET all == <<x>> \o ring
    IN  IF Len(all) > RING_BUFFER_MAX_LEN THEN SubSeq(all, 1, RING_BUFFER_MAX_LEN) ELSE all

\* The end of a REST verb that returns the body whatever the status.
finish_no_raise(resp) ==
    IF resp = NetworkFailure
    THEN [raised |-> "TransportError", retry |-> NoHeader, ret |-> 0]
    ELSE [raised |-> "none", retry |-> NoHeader, ret |-> json(resp)]

\* The end of a REST verb that raises every error as a rate limit.
finish_all_rate_limited(resp) ==
    IF resp = NetworkFailure
    THEN [raised |-> "RateLimitError", retry |-> NoHeader, ret |-> 0]
    ELSE LET error == _parse_response(resp)
         IN  IF error.kind # "none"
             THEN [raised |-> "RateLimitError", retry |-> error.retry, ret |-> 0]
             ELSE [raised |-> "none", retry |-> NoHeader, ret |-> json(resp)]

\* The end of every REST verb: raise the error of the response, if any, else
\* return the body.  A request that got no answer has raised already.
finish(resp) ==
    IF resp = NetworkFailure
    THEN [raised |-> "TransportError", retry |-> NoHeader, ret |-> 0]
    ELSE LET error == _parse_response(resp)
         IN  IF error.kind # "none"
             THEN [raised |-> error.kind, retry |-> error.retry, ret |-> 0]
             ELSE [raised |-> "none", retry |-> NoHeader, ret |-> json(resp)]

\* retry_429, when the wrapped verb returns or raises: a RateLimitError is
\* caught and the wait read from it, anything else goes to the caller.
retry_429(c, out) ==
    IF out.raised = "RateLimitError"
    THEN [c EXCEPT !.pc = "sleep",
                   !.wait = IF out.retry.present THEN out.retry.v ELSE DefaultBackoff]
    ELSE IF out.raised # "none"
    THEN [c EXCEPT !.pc = "raised", !.err = out.raised]
    ELSE [c EXCEPT !.pc = "returned", !.ret = out.ret]

\* retry_429, after the wait: give up with the RateLimitError once max_time
\* has been exceeded, else call the verb again.  t is the time after the sleep.
retry_429_resume(self, c, t) ==
    IF t - c.start > self._max_time
    THEN [c EXCEPT !.pc = "raised", !.err = "RateLimitError", !.slept = c.slept + c.wait]
    ELSE [c EXCEPT !.pc = "attempt", !.slept = c.slept + c.wait]

\* What a call has seen once resp has answered its latest request.
Seen(c, resp) ==
    IF resp = NetworkFailure
    THEN [c EXCEPT !.attempts = c.attempts + 1, !.resp = resp]
    ELSE [c EXCEPT !.attempts = c.attempts + 1,
                   !.resp = resp,
                   !.n429 = IF resp.status = 429 THEN c.n429 + 1 ELSE c.n429,
                   !.only2 = IF resp.status = 429 THEN c.only2 /\ resp.retry = Header(2)
                             ELSE c.only2]

\* The server's answers to the next request, or none.
Answers == Responses(wire.nreq + 1) \cup {NetworkFailure}

\* The traffic once the request req has been sent and resp has answered it.
Sent(resp, req) ==
    [wire EXCEPT !.nreq = wire.nreq + 1,
                 !.ideal = IF resp # NetworkFailure THEN appendleft(wire.ideal, Raw(resp))
                           ELSE wire.ideal,
                 !.req = req]

\* Archivist._add_headers with the authorization entry written into the
\* mapping the caller supplied.
_add_headers_in_place(self, headers, t, nextid, idp) ==
    {LET newheaders == IF headers.kind # "None" THEN headers ELSE EmptyHeaders
         ret == IF o.raised = "none" /\ o.ret # None
                THEN [newheaders EXCEPT !.authorization = Bearer(strip(o.ret))]
                ELSE newheaders
     IN  [raised |-> o.raised, self |-> o.self, sent |-> o.sent, fetch |-> o.fetch,
          t |-> o.t, ret |-> ret,
          caller |-> IF headers.kind # "None" THEN ret ELSE headers]
     : o \in auth(self, t, nextid, idp)}

\* Archivist._add_headers: a new mapping with the entries of headers, and
\* with authorization = "Bearer " + auth.strip() when the auth property,
\* read once, is not None.  caller is the mapping supplied, afterwards.
_add_headers(self, headers, t, nextid, idp) ==
    {LET newheaders == IF headers.kind # "None" THEN headers ELSE EmptyHeaders
         ret == IF o.raised = "none" /\ o.ret # None
                THEN [newheaders EXCEPT !.authorization = Bearer(strip(o.ret))]
                ELSE newheaders
     IN  [raised |-> o.raised, self |-> o.self, sent |-> o.sent, fetch |-> o.fetch,
          t |-> o.t, ret |-> ret, caller |-> headers]
     : o \in auth(self, t, nextid, idp)}

\* A request made without _add_headers: no headers keyword, auth not read.
no_headers(self, headers, t) ==
    {[raised |-> "none", self |-> self, sent |-> 0,
      fetch |-> [status |-> 0, access_token |-> None, expires_in |-> 0],
      t |-> t, ret |-> NoneHeaders, caller |-> headers]}

\* The request a verb hands to the session, o being what preparing its
\* headers came to.
Request(method, data, arg, o) ==
    [method |-> method, data |-> data, kw |-> ~data, headers |-> o.ret,
     arg |-> arg, caller |-> o.caller, auth |-> o.self._auth]

\* What a verb raises when preparing the headers raised.
Raised(o) == [raised |-> o.raised, retry |-> NoHeader, ret |-> 0]

\* The headers post_file makes for its request.
ContentType == [EmptyHeaders EXCEPT !.content_type = Value(2)]

\* Archivist.post: the request, form-encoded without headers when data is
\* set, else with the headers of _add_headers, then the error check; the
\* response is not put into the ring buffer.
post ==
    /\ call.pc = "attempt"
    /\ call.method = "post"
    /\ \E o \in IF call.data THEN no_headers(clients[1], call.headers, now)
                ELSE _add_headers(clients[1], call.headers, now, issued + 1,
                                  TwoLifetimesIdp) :
        /\ Affordable(o)
        /\ now' = o.t
        /\ issued' = Issue(o)
        /\ clients' = [clients EXCEPT ![1] = o.self]
        /\ IF o.raised # "none"
           THEN /\ wire' = wire
                /\ call' = retry_429(call, Raised(o))
           ELSE \E response \in Answers :
                /\ wire' = Sent(response, Request("post", call.data, call.headers, o))
                /\ call' = retry_429(Seen(call, response), finish(response))
    /\ UNCHANGED <<heap, last, entity, conf,
                   store, task, listing, attrs>>

\* Archivist.post_file
post_file ==
    /\ call.pc = "attempt"
    /\ call.method = "post_file"
    /\ \E o \in _add_headers(clients[1], ContentType, now, issued + 1, TwoLifetimesIdp) :
        /\ Affordable(o)
        /\ now' = o.t
        /\ issued' = Issue(o)
        /\ IF o.raised # "none"
           THEN /\ wire' = wire
                /\ clients' = [clients EXCEPT ![1] = o.self]
                /\ call' = retry_429(call, Raised(o))
           ELSE \E response \in Answers :
                /\ wire' = Sent(response, Request("post_file", FALSE, ContentType, o))
                /\ clients' = [clients EXCEPT ![1] =
                                  [o.self EXCEPT !._response_ring_buffer =
                                      IF response # NetworkFailure
                                      THEN appendleft(@, Raw(response)) ELSE @]]
                /\ call' = retry_429(Seen(call, response), finish(response))
    /\ UNCHANGED <<heap, last, entity, conf,
                   store, task, listing, attrs>>

\* Archivist.delete
delete ==
    /\ call.pc = "attempt"
    /\ call.method = "delete"
    /\ \E o \in _add_headers(clients[1], call.headers, now, issued + 1, TwoLifetimesIdp) :
        /\ Affordable(o)
        /\ now' = o.t
        /\ issued' = Issue(o)
        /\ IF o.raised # "none"
           THEN /\ wire' = wire
                /\ clients' = [clients EXCEPT ![1] = o.self]
                /\ call' = retry_429(call, Raised(o))
           ELSE \E response \in Answers :
                /\ wire' = Sent(response, Request("delete", FALSE, call.headers, o))
                /\ clients' = [clients EXCEPT ![1] =
                                  [o.self EXCEPT !._response_ring_buffer =
                                      IF response # NetworkFailure
                                      THEN appendleft(@, Raw(response)) ELSE @]]
                /\ call' = retry_429(Seen(call, response), finish(response))
    /\ UNCHANGED <<heap, last, entity, conf,
                   store, task, listing, attrs>>

\* Archivist.patch
patch ==
    /\ call.pc = "attempt"
    /\ call.method = "patch"
    /\ \E o \in _add_headers(clients[1], call.headers, now, issued + 1, TwoLifetimesIdp) :
        /\ Affordable(o)
        /\ now' = o.t
        /\ issued' = Issue(o)
        /\ IF o.raised # "none"
           THEN /\ wire' = wire
                /\ clients' = [clients EXCEPT ![1] = o.self]
                /\ call' = retry_429(call, Raised(o))
           ELSE \E response \in Answers :
                /\ wire' = Sent(response, Request("patch", FALSE, call.headers, o))
                /\ clients' = [clients EXCEPT ![1] =
                                  [o.self EXCEPT !._response_ring_buffer =
                                      IF response # NetworkFailure
                                      THEN appendleft(@, Raw(response)) ELSE @]]
                /\ call' = retry_429(Seen(call, response), finish(response))
    /\ UNCHANGED <<heap, last, entity, conf,
                   store, task, listing, attrs>>

\* The headers a caller passes to a verb.
HeaderArgs == {NoneHeaders, [EmptyHeaders EXCEPT !.x_custom = Value(1)]}

\* The arguments a verb can be called with: post takes data and headers,
\* delete and patch take headers, post_file neither.
Args(m) ==
    CASE m = "post" -> {[data |-> d, headers |-> h] : d \in BOOLEAN, h \in HeaderArgs}
      [] m = "post_file" -> {[data |-> FALSE, headers |-> NoneHeaders]}
      [] OTHER -> {[data |-> FALSE, headers |-> h] : h \in HeaderArgs}

\* The caller calls one of the verbs.
Call ==
    /\ call.pc \in {"idle", "returned", "raised"}
    /\ wire.calls < MaxCalls
    /\ \E m \in Methods : \E args \in Args(m) :
        call' = [NoCall EXCEPT !.pc = "attempt", !.method = m, !.start = now,
                               !.data = args.data, !.headers = args.headers]
    /\ wire' = [wire EXCEPT !.calls = wire.calls + 1, !.req = NoRequest]
    /\ UNCHANGED <<now, heap, clients, issued, last, entity, conf,
                   store, task, listing, attrs>>

\* time.sleep(wait) in retry_429, and what follows it.
Sleep ==
    /\ call.pc = "sleep"
    /\ now' = now + call.wait
    /\ call' = retry_429_resume(clients[1], call, now')
    /\ UNCHANGED <<heap, clients, issued, last, wire, entity, conf,
                   store, task, listing, attrs>>

InitRetry == \E max_time \in MaxTimes : Built(BaseUrl, Str(1), max_time)

NextRetry ==
    \/ Call
    \/ post
    \/ post_file
    \/ delete
    \/ patch
    \/ Sleep

\* A call in progress keeps running: the thread is blocked in it.
SpecRetry ==
    InitRetry /\ [][NextRetry]_vars
    /\ WF_vars(post \/ post_file \/ delete \/ patch)
    /\ WF_vars(Sleep)

Finished == call.pc \in {"returned", "raised"}
Elapsed == now - call.start

\* C1: a call whose requests were answered 429 with retry-after = 2 N times
\* and then with success made exactly N + 1 requests, slept at least 2 * N
\* seconds and returned the body of the successful response; a call returns
\* only the body of a successful response; and a call that was answered
\* nothing but such 429s gave up only because 2 * N exceeded max_time.
C1_RetriesUntilSuccess ==
    /\ call.pc = "returned"
        => /\ call.resp.status = 200
           /\ call.ret = json(call.resp)
    /\ (Finished /\ call.resp.status = 200 /\ call.only2)
        => /\ call.pc = "returned"
           /\ call.attempts = call.n429 + 1
           /\ call.slept >= 2 * call.n429
    /\ (call.pc = "raised" /\ call.err = "RateLimitError" /\ call.only2)
        => 2 * call.n429 > last.max_time

\* Success after two 429 answers with retry-after = 2.
C1_Witness ==
    /\ call.pc = "returned"
    /\ call.method = "patch"
    /\ call.only2
    /\ call.n429 = 2
    /\ call.attempts = 3
    /\ call.slept = 4

\* C2: a decorated call always ends, even if every answer is a 429; a
\* request is only sent while the time elapsed since the call began does not
\* exceed the max_time the client was configured with; the RateLimitError
\* reaches the caller only once max_time is exceeded, and no request follows.
C2_RetryEnds ==
    /\ [](call.pc = "attempt" => Elapsed <= last.max_time)
    /\ []((call.pc = "raised" /\ call.err = "RateLimitError") => Elapsed > last.max_time)
    /\ [][Finished => wire'.nreq = wire.nreq]_vars
    /\ (call.pc \in {"attempt", "sleep"}) ~> Finished

\* A call that gave up after three 429 answers.
C2_Witness ==
    /\ call.pc = "raised"
    /\ call.err = "RateLimitError"
    /\ call.n429 >= 3
    /\ Elapsed > last.max_time

\* C8: the ring buffer holds the responses of the most recent requests,
\* newest first, at most RING_BUFFER_MAX_LEN of them.
C8_RingHoldsEveryResponse ==
    clients[1]._response_ring_buffer = wire.ideal

\* C15: only a 429 is retried.  A request answered with an error status
\* other than 429, or not answered at all, ends the call at once: that one
\* request was sent, no time passes, nothing is slept, and the error of the
\* response is raised; a call returns a body only for a response without
\* error; a call that ended made one request per 429 it saw and, unless it
\* gave up on a 429, one more.
C15_OnlyRateLimitRetried ==
    /\ [][(call.pc = "attempt" /\ call'.attempts = call.attempts + 1
            /\ (call'.resp = NetworkFailure \/ call'.resp.status \notin {200, 429}))
          => /\ call'.pc = "raised"
             /\ call'.err # "RateLimitError"
             /\ call'.resp # NetworkFailure => call'.err = _parse_response(call'.resp).kind
             /\ wire'.nreq = wire.nreq + 1
             /\ now' = now
             /\ call'.slept = call.slept]_vars
    /\ [](call.pc = "returned"
            => (call.resp.status < 400 /\ call.resp # NetworkFailure
                /\ call.ret = json(call.resp)))
    /\ [](Finished
            => call.attempts = call.n429 + (IF call.err = "RateLimitError" THEN 0 ELSE 1))

\* A 404 after one 429: raised without a second wait.
C15_Witness ==
    /\ call.pc = "raised"
    /\ call.err = "NotFoundError"
    /\ call.method = "delete"
    /\ call.n429 = 1
    /\ call.attempts = 2
    /\ call.slept = call.wait

(***************************************************************************)
(* SpecHeaders: the REST verbs of a client built without auth, with a      *)
(* token, with a token that has white space around it, or with client      *)
(* credentials whose tokens expire between the attempts of a call.         *)
(***************************************************************************)
HeaderAuths == {None, Str(1), Padded(1), Tuple(1, 1)}

\* The max_time of the client: room for two retries.
HeadersMaxTime == 2

InitHeaders == \E a \in HeaderAuths : Built(BaseUrl, a, HeadersMaxTime)

SpecHeaders == InitHeaders /\ [][NextRetry]_vars

\* The headers mapping a verb starts from: the one supplied, or an empty one.
Supplied(req) == IF req.arg.kind # "None" THEN req.arg ELSE EmptyHeaders

\* The token of the request is good at the time t: one issued by the
\* identity provider has not expired.
Unexpired(req, t) == req.auth.kind = "access_token" => t < req.auth.exp

\* C14 as stated: every request of post, post_file, patch and delete has
\* headers that are the supplied ones with authorization = "Bearer " + token
\* when the client's token is not None, and exactly the supplied ones when
\* it is None; the mapping supplied is not changed.
C14_EveryRequestCarriesToken ==
    [][wire'.nreq > wire.nreq
        => LET req == wire'.req
           IN  /\ req.kw
               /\ req.caller = req.arg
               /\ Unexpired(req, now')
               /\ req.headers = IF req.auth # None
                                THEN [Supplied(req) EXCEPT !.authorization = Bearer(req.auth)]
                                ELSE Supplied(req)]_vars

\* C14: every request of post_file, patch and delete, and of post without
\* data, has headers that are the supplied ones with authorization =
\* "Bearer " + the client's token stripped of surrounding white space when
\* the token is not None, and exactly the supplied ones when it is None; a
\* token issued by the identity provider is unexpired when the request is
\* made; the mapping supplied is not changed.  A post with data passes no
\* headers at all and does not read the token.
C14_RequestCarriesToken ==
    [][wire'.nreq > wire.nreq
        => LET req == wire'.req
           IN  /\ req.caller = req.arg
               /\ req.data
                    => /\ req.method = "post"
                       /\ ~req.kw
                       /\ issued' = issued
               /\ ~req.data
                    => /\ req.kw
                       /\ Unexpired(req, now')
                       /\ req.headers =
                            IF req.auth # None
                            THEN [Supplied(req) EXCEPT
                                     !.authorization = Bearer(strip(req.auth))]
                            ELSE Supplied(req)]_vars

\* A retried patch with a caller's header, sent with the second token the
\* client fetched.
C14_Witness ==
    /\ wire.req.method = "patch"
    /\ wire.req.headers.x_custom = Value(1)
    /\ wire.req.auth.kind = "access_token"
    /\ wire.req.auth.id = 2
    /\ wire.req.headers.authorization = Bearer(wire.req.auth)
    /\ call.n429 > 0

(***************************************************************************)
(* SpecConfirm: wait_for_confirmation polling an entity that the server    *)
(* confirms or fails when it likes, or never.                              *)
(***************************************************************************)
Seconds(n) == [kind |-> "int", id |-> n]
TimeoutArgs == {None} \cup {Seconds(n) : n \in MaxTimes}

\* The poller, after a read returned e: return the entity when it is
\* confirmed, raise when it has failed, else wait and read again.
poll(c, e) ==
    LET status == e[CONFIRMATION_STATUS]
        c1 == [c EXCEPT !.reads = c.reads + 1,
                        !.seen = status,
                        !.npending = IF status = "PENDING" THEN c.npending + 1 ELSE c.npending]
    IN  IF status = CONFIRMATION_CONFIRMED
        THEN [c1 EXCEPT !.pc = "returned", !.ret = e]
        ELSE IF status = CONFIRMATION_FAILED
        THEN [c1 EXCEPT !.pc = "raised", !.err = "ConfirmationFailedError"]
        ELSE [c1 EXCEPT !.pc = "sleep"]

\* The poller, after the wait: give up once the timeout has been exceeded.
\* t is the time after the sleep.
poll_resume(c, t) ==
    IF t - c.start > c.timeout
    THEN [c EXCEPT !.pc = "raised", !.err = "ConfirmationTimeoutError"]
    ELSE [c EXCEPT !.pc = "read"]

\* entity = arch.assets.wait_for_confirmation(identity[, timeout])
wait_for_confirmation ==
    /\ conf.pc \in {"idle", "returned", "raised"}
    /\ conf.calls < MaxCalls
    /\ \E arg \in TimeoutArgs :
        conf' = [NoConf EXCEPT !.pc = "read", !.calls = conf.calls + 1, !.start = now,
                               !.arg = arg,
                               !.timeout = IF arg = None THEN clients[1]._max_time
                                           ELSE arg.id]
    /\ UNCHANGED <<now, heap, clients, issued, last, call, wire, entity,
                   store, task, listing, attrs>>

\* One read of the entity by the poller.
Read ==
    /\ conf.pc = "read"
    /\ conf' = poll(conf, entity)
    /\ UNCHANGED <<now, heap, clients, issued, last, call, wire, entity,
                   store, task, listing, attrs>>

\* The wait between two reads.
PollSleep ==
    /\ conf.pc = "sleep"
    /\ \E interval \in 1..MaxPoll :
        /\ now' = now + interval
        /\ conf' = poll_resume([conf EXCEPT !.wait = interval], now')
    /\ UNCHANGED <<heap, clients, issued, last, call, wire, entity,
                   store, task, listing, attrs>>

\* The server confirms the entity.
ServerConfirms ==
    /\ entity.confirmation_status = "PENDING"
    /\ entity' = [entity EXCEPT !.confirmation_status = "CONFIRMED"]
    /\ UNCHANGED <<now, heap, clients, issued, last, call, wire, conf,
                   store, task, listing, attrs>>

\* The server fails the entity.
ServerFails ==
    /\ entity.confirmation_status = "PENDING"
    /\ entity' = [entity EXCEPT !.confirmation_status = "FAILED"]
    /\ UNCHANGED <<now, heap, clients, issued, last, call, wire, conf,
                   store, task, listing, attrs>>

InitConfirm == \E max_time \in MaxTimes : Built(BaseUrl, None, max_time)

NextConfirm ==
    \/ wait_for_confirmation
    \/ Read
    \/ PollSleep
    \/ ServerConfirms
    \/ ServerFails

\* A wait in progress keeps running: the thread is blocked in it.
SpecConfirm ==
    InitConfirm /\ [][NextConfirm]_vars
    /\ WF_vars(Read)
    /\ WF_vars(PollSleep)

ConfFinished == conf.pc \in {"returned", "raised"}
ConfElapsed == now - conf.start
\* The timeout the caller asked for: the argument, or the client's max_time.
ConfDeadline == IF conf.arg = None THEN last.max_time ELSE conf.arg.id

\* C3: once a read reports CONFIRMED the wait is over: it returns that
\* entity, and it made exactly K + 1 reads, K being the number of reads
\* that reported PENDING; nothing else is ever returned.
C3_ReturnsConfirmed ==
    /\ conf.seen = "CONFIRMED"
        => /\ conf.pc = "returned"
           /\ conf.ret.confirmation_status = "CONFIRMED"
           /\ conf.reads = conf.npending + 1
    /\ conf.pc = "returned" => conf.seen = "CONFIRMED"

\* CONFIRMED on the third read.
C3_Witness ==
    /\ conf.pc = "returned"
    /\ conf.npending = 2
    /\ conf.reads = 3
    /\ conf.ret.confirmation_status = "CONFIRMED"

\* C4: a wait on an entity that stays PENDING ends; it reads only while the
\* time elapsed does not exceed the timeout asked for, raises
\* ConfirmationTimeoutError once it does, and never returns an entity that
\* is still PENDING.
C4_TimesOut ==
    /\ [](conf.pc = "read" => ConfElapsed <= ConfDeadline)
    /\ []((conf.pc = "raised" /\ conf.err = "ConfirmationTimeoutError")
            => (conf.seen = "PENDING" /\ ConfElapsed > ConfDeadline))
    /\ []((ConfFinished /\ conf.seen = "PENDING")
            => (conf.pc = "raised" /\ conf.err = "ConfirmationTimeoutError"))
    /\ [][(ConfFinished /\ conf'.calls = conf.calls) => conf'.reads = conf.reads]_vars
    /\ (conf.pc \in {"read", "sleep"}) ~> ConfFinished

\* A timeout, by the client's max_time, after three reads.
C4_Witness ==
    /\ conf.pc = "raised"
    /\ conf.err = "ConfirmationTimeoutError"
    /\ conf.arg = None
    /\ conf.reads = 3
    /\ entity.confirmation_status = "PENDING"

\* C5: once a read reports FAILED the wait is over: it raises
\* ConfirmationFailedError, not ConfirmationTimeoutError, returns nothing and
\* reads no more.
C5_FailsOnFailed ==
    /\ [](conf.seen = "FAILED"
            => (conf.pc = "raised" /\ conf.err = "ConfirmationFailedError"))
    /\ [](conf.pc = "returned" => conf.ret.confirmation_status # "FAILED")
    /\ [][(conf.seen = "FAILED" /\ conf'.calls = conf.calls) => conf' = conf]_vars

\* FAILED reported by the second read.
C5_Witness ==
    /\ conf.pc = "raised"
    /\ conf.err = "ConfirmationFailedError"
    /\ conf.reads = 2
    /\ conf.npending = 1

(***************************************************************************)
(* SpecLocations: two clients of one server calling                        *)
(* locations.create_if_not_exists, their requests interleaved as the       *)
(* network delivers them.                                                  *)
(***************************************************************************)
MaxStored == 2          \* locations the server holds at the start

LOCATIONS_SUBPATH == "v2"
LOCATIONS_LABEL == "locations"

Names == {"a", "b"}

\* The request bodies a caller hands to create_if_not_exists: a selector on
\* display_name with the properties, or a body without 'selector'.
DataArgs ==
    {[keys |-> {"selector", "display_name"}, selector |-> <<"display_name">>,
      display_name |-> n] : n \in Names}
    \cup {[keys |-> {"display_name"}, selector |-> <<>>, display_name |-> "a"]}

\* class Location(dict)
Location(a) == [cls |-> "Location", identity |-> a.identity, display_name |-> a.display_name]

\* The stores the server can start with: up to MaxStored locations, none
\* of them created by the clients of the model.
RECURSIVE Stores(_)
Stores(n) ==
    IF n = 0 THEN {<<>>}
    ELSE LET shorter == Stores(n - 1)
         IN  shorter \cup
             {Append(st, [identity |-> Len(st) + 1, display_name |-> d, by |-> 0]) :
                 st \in {x \in shorter : Len(x) = n - 1}, d \in Names}

\* data = data, the caller's dict itself.
same_dict(objs, r) == [objs |-> objs, ref |-> r]

\* data = deepcopy(data): a new dict object with the same content.
deepcopy_data(objs, r) == [objs |-> [objs EXCEPT ![2] = objs[r]], ref |-> 2]

\* data.pop(key): removes the key from the dict object and returns its value.
pop(objs, r, key) ==
    IF key \notin objs[r].keys
    THEN [raised |-> "KeyError", objs |-> objs, value |-> <<>>]
    ELSE [raised |-> "none", objs |-> [objs EXCEPT ![r].keys = @ \ {key}],
          value |-> objs[r].selector]

\* utils.selector_signature: the properties the selector names, with their
\* values in data.
selector_signature(selector, d) ==
    [keys |-> {selector[i] : i \in DOMAIN selector} \cap d.keys,
     display_name |-> d.display_name]

\* A location of the store matches the signature.
Matches(loc, props) == "display_name" \in props.keys => loc.display_name = props.display_name

\* ArchivistPublic.get_by_signature against the store, the server answering
\* with status: exactly one match is returned, none and several are errors.
get_by_signature(st, props, status) ==
    LET found == SelectSeq(st, LAMBDA loc : Matches(loc, props))
        error == _parse_response([n |-> 0, status |-> status, retry |-> NoHeader])
    IN  IF error.kind # "none" THEN [raised |-> error.kind, ret |-> NoLocation]
        ELSE IF Len(found) = 0 THEN [raised |-> "ArchivistNotFoundError", ret |-> NoLocation]
        ELSE IF Len(found) > 1 THEN [raised |-> "ArchivistDuplicateError", ret |-> NoLocation]
        ELSE [raised |-> "none", ret |-> found[1]]

\* _LocationsClient.read_by_signature
read_by_signature(st, props, status) ==
    LET r == get_by_signature(st, props, status)
    IN  IF r.raised # "none" THEN r ELSE [raised |-> "none", ret |-> Location(r.ret)]

\* _LocationsClient.create_if_not_exists up to its lookup: the copy, the
\* pop of 'selector', the signature and read_by_signature.  t is the call,
\* whose objs[1] is the caller's dict.
lookup(t, st, status) ==
    LET copied == deepcopy_data(t.objs, 1)
        popped == pop(copied.objs, copied.ref, "selector")
        sig == selector_signature(popped.value, popped.objs[copied.ref])
        r == read_by_signature(st, sig, status)
        t1 == [t EXCEPT !.objs = popped.objs, !.data = copied.ref]
    IN  IF popped.raised # "none"
        THEN [t1 EXCEPT !.pc = "raised", !.err = popped.raised]
        ELSE IF r.raised = "ArchivistNotFoundError"
        THEN [t1 EXCEPT !.pc = "create", !.found = r.raised]
        ELSE IF r.raised # "none"
        THEN [t1 EXCEPT !.pc = "raised", !.err = r.raised, !.found = r.raised]
        ELSE [t1 EXCEPT !.pc = "returned", !.found = "one", !.seen = r.ret,
                        !.ret = r.ret, !.existed = TRUE]

\* location, existed = arch.locations.create_if_not_exists(data), up to the
\* answer to its lookup.
create_if_not_exists(c) ==
    /\ task[c].pc \in {"idle", "returned", "raised"}
    /\ task[c].calls < MaxCalls
    /\ \E data \in DataArgs, status \in {200, 500} :
        task' = [task EXCEPT ![c] =
                    lookup([NoTask EXCEPT !.calls = task[c].calls + 1,
                                          !.objs = <<data, NoDict>>,
                                          !.orig = data],
                           store, status)]
    /\ UNCHANGED <<now, heap, clients, issued, last, call, wire, entity, conf,
                   store, listing, attrs>>

\* return self.create_from_data(data), False: the POST of the body and the
\* Location made of the response.
create_from_data(c) ==
    /\ task[c].pc = "create"
    /\ \E status \in {200, 500} :
        LET t == task[c]
            body == t.objs[t.data]
            created == [identity |-> Len(store) + 1, display_name |-> body.display_name,
                        by |-> c]
            error == _parse_response([n |-> 0, status |-> status, retry |-> NoHeader])
            t1 == [t EXCEPT !.posts = t.posts + 1, !.body = body]
        IN  IF error.kind # "none"
            THEN /\ task' = [task EXCEPT ![c] = [t1 EXCEPT !.pc = "raised", !.err = error.kind]]
                 /\ store' = store
            ELSE /\ task' = [task EXCEPT ![c] = [t1 EXCEPT !.pc = "returned",
                                                           !.ret = Location(created),
                                                           !.existed = FALSE]]
                 /\ store' = Append(store, created)
    /\ UNCHANGED <<now, heap, clients, issued, last, call, wire, entity, conf,
                   listing, attrs>>

InitLocations ==
    LET r == ArchivistInit(EmptyHeap, BaseUrl, Str(1), None, TRUE, MaxMaxTime)
        q == ArchivistInit(r.heap, BaseUrl, Str(2), None, TRUE, MaxMaxTime)
    IN  /\ now = 1
        /\ heap = q.heap
        /\ clients = [c \in Slots |-> IF c = 1 THEN r.self ELSE q.self]
        /\ issued = 0
        /\ last = Did("none", 0, "none", None)
        /\ call = NoCall
        /\ wire = NoWire
        /\ entity = NoEntity
        /\ conf = NoConf
        /\ store \in Stores(MaxStored)
        /\ task = [c \in Slots |-> NoTask]
        /\ listing = NoListing
        /\ attrs = NoAttrs

NextLocations ==
    \/ \E c \in Slots : create_if_not_exists(c)
    \/ \E c \in Slots : create_from_data(c)

SpecLocations == InitLocations /\ [][NextLocations]_vars

\* The locations of the store that client c created.
CreatedBy(c) == {i \in DOMAIN store : store[i].by = c}

\* C11: a create_if_not_exists call whose lookup found one location returns
\* (that location, True) and makes no POST; one whose lookup raised
\* ArchivistNotFoundError makes exactly one POST, of the caller's data
\* without 'selector', and returns (the location created, False); one whose
\* lookup raised anything else raises it and makes no POST; the caller's
\* dict is as it was handed in.
C11_CreateIfNotExists ==
    \A c \in Slots :
        LET t == task[c]
        IN  /\ t.objs[1] = t.orig
            /\ t.found = "one"
                => /\ t.pc = "returned"
                   /\ t.existed
                   /\ t.ret = Location(t.seen)
                   /\ t.posts = 0
            /\ (t.found = "ArchivistNotFoundError" /\ t.pc # "create")
                => /\ t.posts = 1
                   /\ t.body.keys = t.orig.keys \ {"selector"}
                   /\ t.body.display_name = t.orig.display_name
                   /\ t.pc = "returned"
                        => /\ ~t.existed
                           /\ \E i \in CreatedBy(c) : t.ret = Location(store[i])
            /\ t.found \notin {"none", "one", "ArchivistNotFoundError"}
                => /\ t.pc = "raised"
                   /\ t.err = t.found
                   /\ t.posts = 0

\* A location created by the second client on a server that holds others.
C11_Witness ==
    /\ task[2].pc = "returned"
    /\ task[2].found = "ArchivistNotFoundError"
    /\ ~task[2].existed
    /\ task[2].posts = 1
    /\ "selector" \in task[2].objs[1].keys
    /\ Len(store) > 2

\* C16: of the locations with a name the server did not hold at the start,
\* the clients create at most one, and two calls with the same data do not
\* both return existed = False.
C16_AtMostOneCreated ==
    /\ \A n \in Names :
        (\A i \in DOMAIN store : store[i].display_name = n => store[i].by # 0)
            => Cardinality({i \in DOMAIN store : store[i].display_name = n}) <= 1
    /\ ~ /\ task[1].pc = "returned" /\ ~task[1].existed
         /\ task[2].pc = "returned" /\ ~task[2].existed
         /\ task[1].orig = task[2].orig

(***************************************************************************)
(* SpecList: one caller iterating over locations.list against a server     *)
(* that serves its locations in pages.                                     *)
(***************************************************************************)
MaxItems == 6           \* locations the server holds while they are listed
MaxPageSize == 3        \* largest page_size asked for

Min(a, b) == IF a < b THEN a ELSE b

\* The server's answer to a list request: the page the continuation token
\* names (the first page for no token) and the token of the page after it,
\* 0 when there is none.
Page(st, page_size, token) ==
    LET k == IF token = 0 THEN 1 ELSE token
        from == (k - 1) * page_size + 1
        to == Min(k * page_size, Len(st))
    IN  [locations |-> SubSeq(st, from, to),
         next_page_token |-> IF to < Len(st) THEN k + 1 ELSE 0]

\* The number of pages the server serves n items in.
Pages(n, page_size) == IF n = 0 THEN 1 ELSE (n + page_size - 1) \div page_size

\* ArchivistPublic.list, a generator, resumed: it yields the next entity of
\* the page in hand; when the page is used up it stops if the server gave
\* no continuation token, else requests the next page.
archivist_list(it, st, status) ==
    IF Len(it.page) > 0
    THEN [it |-> [it EXCEPT !.page = Tail(it.page)], raised |-> "none", value |-> Head(it.page)]
    ELSE IF it.pc = "active" /\ it.token = 0
    THEN [it |-> [it EXCEPT !.pc = "exhausted"], raised |-> "StopIteration",
          value |-> NoLocation]
    ELSE LET error == _parse_response([n |-> 0, status |-> status, retry |-> NoHeader])
             data == Page(st, it.page_size, it.token)
             it1 == [it EXCEPT !.pc = "active", !.requests = it.requests + 1]
         IN  IF error.kind # "none"
             THEN [it |-> [it1 EXCEPT !.pc = "raised", !.err = error.kind],
                   raised |-> error.kind, value |-> NoLocation]
             ELSE IF Len(data.locations) = 0
             THEN [it |-> [it1 EXCEPT !.pc = "exhausted", !.token = data.next_page_token],
                   raised |-> "StopIteration", value |-> NoLocation]
             ELSE [it |-> [it1 EXCEPT !.page = Tail(data.locations),
                                      !.token = data.next_page_token],
                   raised |-> "none", value |-> Head(data.locations)]

\* The generator read to its end: every page requested, every entity in
\* hand.
RECURSIVE read_all(_, _)
read_all(it, st) ==
    IF it.pc = "active" /\ it.token = 0 THEN it
    ELSE LET data == Page(st, it.page_size, it.token)
         IN  read_all([it EXCEPT !.pc = "active", !.requests = it.requests + 1,
                                 !.page = it.page \o data.locations,
                                 !.token = data.next_page_token], st)

\* _LocationsClient.list as a list comprehension: all pages are read before
\* the first Location is handed out.
list_next_eager(it, st, status) ==
    LET r == archivist_list(read_all(it, st), st, status)
    IN  IF r.raised # "none" THEN r ELSE [r EXCEPT !.value = Location(r.value)]

\* _LocationsClient.list, a generator expression over ArchivistPublic.list,
\* resumed: the next entity as a Location.
list_next(it, st, status) ==
    LET r == archivist_list(it, st, status)
    IN  IF r.raised # "none" THEN r ELSE [r EXCEPT !.value = Location(r.value)]

\* locations = arch.locations.list(page_size=...): the generator is made,
\* nothing is requested.
list ==
    /\ listing.pc = "idle"
    /\ \E page_size \in 1..MaxPageSize :
        listing' = [NoListing EXCEPT !.pc = "made", !.page_size = page_size]
    /\ UNCHANGED <<now, heap, clients, issued, last, call, wire, entity, conf,
                   store, task, attrs>>

\* next(locations), as a for loop over the generator does.
Iterate ==
    /\ listing.pc \in {"made", "active"}
    /\ \E status \in {200, 500} :
        LET r == list_next(listing, store, status)
        IN  listing' = IF r.raised = "none"
                       THEN [r.it EXCEPT !.yielded = Append(@, r.value)]
                       ELSE r.it
    /\ UNCHANGED <<now, heap, clients, issued, last, call, wire, entity, conf,
                   store, task, attrs>>

InitList ==
    LET r == ArchivistInit(EmptyHeap, BaseUrl, Str(1), None, TRUE, MaxMaxTime)
    IN  /\ now = 1
        /\ heap = r.heap
        /\ clients = [c \in Slots |-> IF c = 1 THEN r.self ELSE NoClient]
        /\ issued = 0
        /\ last = Did("none", 0, "none", None)
        /\ call = NoCall
        /\ wire = NoWire
        /\ entity = NoEntity
        /\ conf = NoConf
        /\ store \in Stores(MaxItems)
        /\ task = [c \in Slots |-> NoTask]
        /\ listing = NoListing
        /\ attrs = NoAttrs

NextList ==
    \/ list
    \/ Iterate

SpecList == InitList /\ [][NextList]_vars

\* C12: the Locations yielded so far are the first of the server's
\* locations, in server order, each once; the requests made are those of
\* the pages consumed and of no page beyond them; an iteration that came to
\* its end yielded every location and made one request per page.
C12_LazyPaginatedList ==
    LET n == Len(store)
        y == Len(listing.yielded)
        ps == listing.page_size
    IN  /\ y <= n
        /\ \A i \in 1..y : listing.yielded[i] = Location(store[i])
        /\ listing.pc \in {"idle", "made"} => listing.requests = 0
        /\ listing.pc = "active" => (y > 0 /\ listing.requests = Pages(y, ps))
        /\ listing.pc = "raised" => listing.requests = (y \div ps) + 1
        /\ listing.pc = "exhausted" => (y = n /\ listing.requests = Pages(n, ps))

\* Six locations listed to the end in three pages of two.
C12_Witness ==
    /\ listing.pc = "exhausted"
    /\ listing.page_size = 2
    /\ Len(store) = 6
    /\ Len(listing.yielded) = 6
    /\ listing.requests = 3

(***************************************************************************)
(* SpecClients: a caller asking a client object for its sub-clients by     *)
(* attribute name.                                                         *)
(***************************************************************************)
MaxAttrs == 3           \* sub-clients made on one client object

\* Archivist.CLIENTS
CLIENTS ==
    [access_policies |-> "_AccessPoliciesClient",
     assets |-> "_AssetsRestricted",
     assetattachments |-> "_AssetAttachmentsClient",
     appidp |-> "_AppIDPClient",
     applications |-> "_ApplicationsClient",
     attachments |-> "_AttachmentsClient",
     compliance |-> "_ComplianceClient",
     compliance_policies |-> "_CompliancePoliciesClient",
     composite |-> "_CompositeClient",
     events |-> "_EventsRestricted",
     locations |-> "_LocationsClient",
     runner |-> "_Runner",
     sboms |-> "_SBOMSClient",
     subjects |-> "_SubjectsClient"]

\* The attribute names a caller asks for: the registered ones, the public
\* events client and a name nothing defines.
AttrNames == DOMAIN CLIENTS \cup {"publicevents", "nosuch"}

\* str() of a sub-client of the given class made for the client self, where
\* the source has its __str__.
SubClientStr(cls, self) ==
    CASE cls = "_LocationsClient" -> <<"LocationsClient", self._url>>
      [] cls = "_PublicEventsClient" -> <<"PublicEventsClient", self._url>>
      [] OTHER -> <<cls, self._url>>

\* Archivist.__getattr__, called when the instance has no attribute value:
\* the class registered under the name makes the sub-client, which is set
\* on the instance.
__getattr__(self, a, value) ==
    IF value \notin DOMAIN CLIENTS
    THEN [a EXCEPT !.asked = value, !.raised = "AttributeError", !.got = "none",
                   !.str = <<>>]
    ELSE [a EXCEPT !.set = @ \cup {value}, !.asked = value, !.raised = "none",
                   !.got = CLIENTS[value], !.str = SubClientStr(CLIENTS[value], self)]

\* arch.<value>: the attribute set on the instance if there is one, else
\* __getattr__.
GetAttr ==
    /\ \E value \in AttrNames :
        IF value \in attrs[1].set
        THEN attrs' = [attrs EXCEPT ![1] =
                          [@ EXCEPT !.asked = value, !.raised = "none",
                                    !.got = CLIENTS[value],
                                    !.str = SubClientStr(CLIENTS[value], clients[1])]]
        ELSE /\ value \in DOMAIN CLIENTS => Cardinality(attrs[1].set) < MaxAttrs
             /\ attrs' = [attrs EXCEPT ![1] = __getattr__(clients[1], @, value)]
    /\ UNCHANGED <<now, heap, clients, issued, last, call, wire, entity, conf,
                   store, task, listing>>

InitClients == Built(BaseUrl, None, 1)

NextClients == GetAttr

SpecClients == InitClients /\ [][NextClients]_vars

\* C13: asking a client for publicevents raises nothing and gives a
\* _PublicEventsClient whose string form is PublicEventsClient(<url>).
C13_PublicEventsAvailable ==
    attrs[1].asked = "publicevents"
        => /\ attrs[1].raised = "none"
           /\ attrs[1].got = "_PublicEventsClient"
           /\ attrs[1].str = <<"PublicEventsClient", clients[1]._url>>

====
